---- MODULE Spec2Model ----
(***************************************************************************)
(* A model of tcp_chat: the length-prefixed framing layer (tcp_conn.rs),   *)
(* the message protocol (packet.rs) and the room server (server.rs).      *)
(*                                                                         *)
(* Strings are sequences of bytes (0..255).  A usize is kept as its eight  *)
(* limbs of weight 256^i, so that 64-bit arithmetic is done limb by limb.  *)
(***************************************************************************)
EXTENDS Integers, Sequences, FiniteSets, TLC

(***************************************************************************)
(* Bounds of the model.                                                    *)
(***************************************************************************)
\* frames the peer of the framed channel may write in one run
MaxFrames == 2
\* chunk deliveries the network may make in one run
MaxDeliveries == 3

(***************************************************************************)
(* Bytes and usize.                                                        *)
(***************************************************************************)
Min(S) == CHOOSE x \in S : \A y \in S : x <= y

\* the value of Body at e (a LET whose name is a bound variable)
With(e, Body(_)) == Body(e)

\* the positions of s, from index lo on, whose byte is in the set B
Positions(s, lo, B) == {i \in lo..Len(s) : s[i] \in B}

\* the length written most significant byte first
to_be_bytes(n) ==
    <<0, 0, 0, 0, (n \div 16777216) % 256, (n \div 65536) % 256, (n \div 256) % 256,
      n % 256>>

\* usize::to_le_bytes of a length (64-bit target: eight bytes)
to_le_bytes(n) ==
    <<n % 256, (n \div 256) % 256, (n \div 65536) % 256, (n \div 16777216) % 256,
      0, 0, 0, 0>>

\* usize::from_le_bytes: byte i + 1 of the eight is the limb of weight 256^i
from_le_bytes(size_bytes) == [i \in 0..7 |-> size_bytes[i + 1]]

\* a usize that fits 24 bits, as a number
UsizeSmall(u) == \A i \in 3..7 : u[i] = 0
UsizeToNat(u) == u[0] + 256 * u[1] + 65536 * u[2]

\* u + k for a usize u and 0 <= k < 256, limb by limb: the carry into limb i,
\* the wrapped sum and the carry out of the top limb
RECURSIVE CarryInto(_, _, _)
CarryInto(u, k, i) ==
    IF i = 0 THEN k ELSE (u[i - 1] + CarryInto(u, k, i - 1)) \div 256

UsizeAdd(u, k) ==
    [limbs    |-> [i \in 0..7 |-> (u[i] + CarryInto(u, k, i)) % 256],
     overflow |-> CarryInto(u, k, 8) > 0]

\* n < u for a number n below 2^24 and a usize u
NatLtUsize(n, u) == IF UsizeSmall(u) THEN n < UsizeToNat(u) ELSE TRUE

(***************************************************************************)
(* packet.rs: the Message enum.  One record shape for every variant:       *)
(* s, t are the string fields, n the u64 field, l the list of (name, id).  *)
(***************************************************************************)
Msg(tag, s, t, n, l) == [tag |-> tag, s |-> s, t |-> t, n |-> n, l |-> l]

ClientText(text)     == Msg("ClientText", text, <<>>, 0, <<>>)
ClientHello(name)    == Msg("ClientHello", name, <<>>, 0, <<>>)
ClientGoodbye        == Msg("ClientGoodbye", <<>>, <<>>, 0, <<>>)
ClientRename(name)   == Msg("ClientRename", name, <<>>, 0, <<>>)
ClientKick(who)      == Msg("ClientKick", <<>>, <<>>, who, <<>>)
ClientRequestIDs     == Msg("ClientRequestIDs", <<>>, <<>>, 0, <<>>)
ServerText(name, text) == Msg("ServerText", name, text, 0, <<>>)
ServerShutdown       == Msg("ServerShutdown", <<>>, <<>>, 0, <<>>)
ServerNotifyKick     == Msg("ServerNotifyKick", <<>>, <<>>, 0, <<>>)
ServerResponseIDs(list) == Msg("ServerResponseIDs", <<>>, <<>>, 0, list)

UnitTags   == {"ClientGoodbye", "ClientRequestIDs", "ServerShutdown", "ServerNotifyKick"}
StringTags == {"ClientText", "ClientHello", "ClientRename"}
AllTags    == UnitTags \cup StringTags \cup {"ClientKick", "ServerText", "ServerResponseIDs"}

\* the variant names as serde writes them (ASCII)
TagBytes(tag) ==
    CASE tag = "ClientText"        -> <<67,108,105,101,110,116,84,101,120,116>>
      [] tag = "ClientHello"       -> <<67,108,105,101,110,116,72,101,108,108,111>>
      [] tag = "ClientGoodbye"     -> <<67,108,105,101,110,116,71,111,111,100,98,121,101>>
      [] tag = "ClientRename"      -> <<67,108,105,101,110,116,82,101,110,97,109,101>>
      [] tag = "ClientKick"        -> <<67,108,105,101,110,116,75,105,99,107>>
      [] tag = "ClientRequestIDs"  -> <<67,108,105,101,110,116,82,101,113,117,101,115,116,73,68,115>>
      [] tag = "ServerText"        -> <<83,101,114,118,101,114,84,101,120,116>>
      [] tag = "ServerShutdown"    -> <<83,101,114,118,101,114,83,104,117,116,100,111,119,110>>
      [] tag = "ServerNotifyKick"  -> <<83,101,114,118,101,114,78,111,116,105,102,121,75,105,99,107>>
      [] tag = "ServerResponseIDs" -> <<83,101,114,118,101,114,82,101,115,112,111,110,115,101,73,68,115>>

(***************************************************************************)
(* serde_json::to_string of a Message (externally tagged enum).            *)
(***************************************************************************)
\* bytes a JSON string must escape: the quote, the backslash, control bytes
EscapeSet == {34, 92} \cup 0..31

HexDigit(d) == IF d < 10 THEN 48 + d ELSE 87 + d

EscapeByte(c) ==
    CASE c = 34 -> <<92, 34>>
      [] c = 92 -> <<92, 92>>
      [] c = 8  -> <<92, 98>>
      [] c = 9  -> <<92, 116>>
      [] c = 10 -> <<92, 110>>
      [] c = 12 -> <<92, 102>>
      [] c = 13 -> <<92, 114>>
      [] OTHER  -> <<92, 117, 48, 48, HexDigit(c \div 16), HexDigit(c % 16)>>

\* the string's bytes with every byte of EscapeSet escaped; the runs between
\* them are copied whole
RECURSIVE EscapeFrom(_, _)
EscapeFrom(s, lo) ==
    LET P == Positions(s, lo, EscapeSet)
    IN IF P = {} THEN SubSeq(s, lo, Len(s))
       ELSE LET k == Min(P)
            IN SubSeq(s, lo, k - 1) \o EscapeByte(s[k]) \o EscapeFrom(s, k + 1)

JsonString(s) == <<34>> \o EscapeFrom(s, 1) \o <<34>>

\* a u64 below 10^9 in decimal
RECURSIVE JsonNumber(_)
JsonNumber(n) ==
    IF n < 10 THEN <<48 + n>> ELSE JsonNumber(n \div 10) \o <<48 + (n % 10)>>

JsonPair(p) == <<91>> \o JsonString(p[1]) \o <<44>> \o JsonNumber(p[2]) \o <<93>>

RECURSIVE JsonPairs(_)
JsonPairs(l) ==
    IF l = <<>> THEN <<>>
    ELSE IF Len(l) = 1 THEN JsonPair(l[1])
    ELSE JsonPair(l[1]) \o <<44>> \o JsonPairs(Tail(l))

\* {"Variant":content}
JsonVariant(tag, content) ==
    <<123>> \o JsonString(TagBytes(tag)) \o <<58>> \o content \o <<125>>

to_string(m) ==
    CASE m.tag \in UnitTags   -> JsonString(TagBytes(m.tag))
      [] m.tag \in StringTags -> JsonVariant(m.tag, JsonString(m.s))
      [] m.tag = "ClientKick" -> JsonVariant(m.tag, JsonNumber(m.n))
      [] m.tag = "ServerText" ->
            JsonVariant(m.tag, <<91>> \o JsonString(m.s) \o <<44>> \o JsonString(m.t) \o <<93>>)
      [] m.tag = "ServerResponseIDs" ->
            JsonVariant(m.tag, <<91>> \o JsonPairs(m.l) \o <<93>>)

(***************************************************************************)
(* std::str::from_utf8: whether the bytes are well-formed UTF-8.           *)
(***************************************************************************)
At(p, i) == IF i \in 1..Len(p) THEN p[i] ELSE -1

IsCont(b) == b \in 128..191

\* the length of the well-formed multi-byte sequence starting at i, or 0
Utf8SeqLen(p, i) ==
    LET b0 == At(p, i)
        b1 == At(p, i + 1)
        b2 == At(p, i + 2)
        b3 == At(p, i + 3)
    IN CASE b0 \in 194..223 -> IF IsCont(b1) THEN 2 ELSE 0
         [] b0 = 224 -> IF b1 \in 160..191 /\ IsCont(b2) THEN 3 ELSE 0
         [] b0 \in (225..236) \cup (238..239) -> IF IsCont(b1) /\ IsCont(b2) THEN 3 ELSE 0
         [] b0 = 237 -> IF b1 \in 128..159 /\ IsCont(b2) THEN 3 ELSE 0
         [] b0 = 240 -> IF b1 \in 144..191 /\ IsCont(b2) /\ IsCont(b3) THEN 4 ELSE 0
         [] b0 \in 241..243 -> IF IsCont(b1) /\ IsCont(b2) /\ IsCont(b3) THEN 4 ELSE 0
         [] b0 = 244 -> IF b1 \in 128..143 /\ IsCont(b2) /\ IsCont(b3) THEN 4 ELSE 0
         [] OTHER -> 0

RECURSIVE Utf8From(_, _)
Utf8From(p, lo) ==
    LET P == Positions(p, lo, 128..255)
    IN IF P = {} THEN TRUE
       ELSE LET k == Min(P)
                n == Utf8SeqLen(p, k)
            IN IF n = 0 THEN FALSE ELSE Utf8From(p, k + n)

from_utf8(p) == Utf8From(p, 1)

(***************************************************************************)
(* serde_json::from_str::<Message>.  Every parser returns                  *)
(* [ok, val, next]: next is the index after what it read.  The model       *)
(* feeds no insignificant whitespace and no \u escape above 007f, and      *)
(* its numbers stay below 10^9.                                            *)
(***************************************************************************)
Fail == [ok |-> FALSE, val |-> <<>>, next |-> 0]

\* the number of backslashes immediately before index j, not going below lo
RECURSIVE BackRun(_, _, _)
BackRun(p, lo, j) ==
    IF j - 1 < lo \/ p[j - 1] # 92 THEN 0 ELSE 1 + BackRun(p, lo, j - 1)

HexValue(b) ==
    CASE b \in 48..57  -> b - 48
      [] b \in 97..102 -> b - 87
      [] b \in 65..70  -> b - 55
      [] OTHER -> -1

\* the bytes an escape sequence starting at the backslash c[k] stands for,
\* and its length
Unescape1(c, k) ==
    LET e == At(c, k + 1)
    IN CASE e = 34  -> [ok |-> TRUE, val |-> <<34>>, next |-> k + 2]
         [] e = 92  -> [ok |-> TRUE, val |-> <<92>>, next |-> k + 2]
         [] e = 47  -> [ok |-> TRUE, val |-> <<47>>, next |-> k + 2]
         [] e = 98  -> [ok |-> TRUE, val |-> <<8>>, next |-> k + 2]
         [] e = 102 -> [ok |-> TRUE, val |-> <<12>>, next |-> k + 2]
         [] e = 110 -> [ok |-> TRUE, val |-> <<10>>, next |-> k + 2]
         [] e = 114 -> [ok |-> TRUE, val |-> <<13>>, next |-> k + 2]
         [] e = 116 -> [ok |-> TRUE, val |-> <<9>>, next |-> k + 2]
         [] e = 117 ->
              LET h == [i \in 1..4 |-> HexValue(At(c, k + 1 + i))]
              IN IF (\A i \in 1..4 : h[i] >= 0) /\ h[1] = 0 /\ h[2] = 0 /\ h[3] < 8
                 THEN [ok |-> TRUE, val |-> <<16 * h[3] + h[4]>>, next |-> k + 6]
                 ELSE Fail
         [] OTHER -> Fail

RECURSIVE UnescapeFrom(_, _)
UnescapeFrom(c, lo) ==
    IF Positions(c, lo, {92}) = {}
    THEN [ok |-> TRUE, val |-> SubSeq(c, lo, Len(c)), next |-> Len(c) + 1]
    ELSE With(Min(Positions(c, lo, {92})), LAMBDA k :
         With(Unescape1(c, k), LAMBDA e :
           IF ~e.ok THEN Fail
           ELSE With(UnescapeFrom(c, e.next), LAMBDA rest :
                  IF ~rest.ok THEN Fail
                  ELSE [ok |-> TRUE, val |-> SubSeq(c, lo, k - 1) \o e.val \o rest.val,
                        next |-> Len(c) + 1])))

\* the closing quote of the JSON string that opens at p[i], or 0
ClosingQuote(p, i) ==
    With({j \in Positions(p, i + 1, {34}) : BackRun(p, i + 1, j) % 2 = 0}, LAMBDA Q :
      IF Q = {} THEN 0 ELSE Min(Q))

\* a JSON string starting at p[i]
ParseString(p, i) ==
    IF At(p, i) # 34 THEN Fail
    ELSE With(ClosingQuote(p, i), LAMBDA j :
           IF j = 0 THEN Fail
           ELSE IF Positions(SubSeq(p, i + 1, j - 1), 1, 0..31) # {} THEN Fail
           ELSE With(UnescapeFrom(SubSeq(p, i + 1, j - 1), 1), LAMBDA u :
                  IF ~u.ok THEN Fail
                  ELSE [ok |-> TRUE, val |-> u.val, next |-> j + 1]))

RECURSIVE DigitsValue(_)
DigitsValue(d) ==
    IF d = <<>> THEN 0 ELSE 10 * DigitsValue(SubSeq(d, 1, Len(d) - 1)) + (d[Len(d)] - 48)

\* the index after the digits that start at p[i]
DigitsEnd(p, i) ==
    With(Positions(p, i, (0..255) \ (48..57)), LAMBDA E :
      IF E = {} THEN Len(p) + 1 ELSE Min(E))

\* a JSON number read as a u64, starting at p[i]
ParseU64(p, i) ==
    With(DigitsEnd(p, i), LAMBDA e :
    With(SubSeq(p, i, e - 1), LAMBDA d :
      IF d = <<>> \/ (Len(d) > 1 /\ d[1] = 48) \/ Len(d) > 9 \/ At(p, e) \in {46, 101, 69}
      THEN Fail
      ELSE [ok |-> TRUE, val |-> DigitsValue(d), next |-> e]))

\* ["name",id]
ParsePair(p, i) ==
    IF At(p, i) # 91 THEN Fail
    ELSE With(ParseString(p, i + 1), LAMBDA s :
           IF ~s.ok \/ At(p, s.next) # 44 THEN Fail
           ELSE With(ParseU64(p, s.next + 1), LAMBDA n :
                  IF ~n.ok \/ At(p, n.next) # 93 THEN Fail
                  ELSE [ok |-> TRUE, val |-> <<s.val, n.val>>, next |-> n.next + 1]))

\* pair (, pair)* ] : the pairs of a non-empty list and its closing bracket
RECURSIVE ParsePairs(_, _)
ParsePairs(p, i) ==
    With(ParsePair(p, i), LAMBDA x :
      IF ~x.ok THEN Fail
      ELSE IF At(p, x.next) = 93 THEN [ok |-> TRUE, val |-> <<x.val>>, next |-> x.next + 1]
      ELSE IF At(p, x.next) # 44 THEN Fail
      ELSE With(ParsePairs(p, x.next + 1), LAMBDA rest :
             IF ~rest.ok THEN Fail
             ELSE [ok |-> TRUE, val |-> <<x.val>> \o rest.val, next |-> rest.next]))

\* the content of variant tag, starting at p[i]
ParseContent(p, i, tag) ==
    CASE tag \in StringTags ->
            With(ParseString(p, i), LAMBDA s :
              IF s.ok THEN [ok |-> TRUE, val |-> Msg(tag, s.val, <<>>, 0, <<>>), next |-> s.next]
              ELSE Fail)
      [] tag = "ClientKick" ->
            With(ParseU64(p, i), LAMBDA n :
              IF n.ok THEN [ok |-> TRUE, val |-> ClientKick(n.val), next |-> n.next] ELSE Fail)
      [] tag = "ServerText" ->
            IF At(p, i) # 91 THEN Fail
            ELSE With(ParseString(p, i + 1), LAMBDA s :
                   IF ~s.ok \/ At(p, s.next) # 44 THEN Fail
                   ELSE With(ParseString(p, s.next + 1), LAMBDA t :
                          IF ~t.ok \/ At(p, t.next) # 93 THEN Fail
                          ELSE [ok |-> TRUE, val |-> ServerText(s.val, t.val),
                                next |-> t.next + 1]))
      [] tag = "ServerResponseIDs" ->
            IF At(p, i) # 91 THEN Fail
            ELSE IF At(p, i + 1) = 93
                 THEN [ok |-> TRUE, val |-> ServerResponseIDs(<<>>), next |-> i + 2]
            ELSE With(ParsePairs(p, i + 1), LAMBDA l :
                   IF l.ok THEN [ok |-> TRUE, val |-> ServerResponseIDs(l.val), next |-> l.next]
                   ELSE Fail)
      [] tag \in UnitTags ->
            IF SubSeq(p, i, i + 3) = <<110, 117, 108, 108>>
            THEN [ok |-> TRUE, val |-> Msg(tag, <<>>, <<>>, 0, <<>>), next |-> i + 4]
            ELSE Fail

\* the variant a name stands for, "none" when it names none of the set
TagNamed(b, Tags) ==
    With({tag \in Tags : TagBytes(tag) = b}, LAMBDA T :
      IF T = {} THEN "none" ELSE CHOOSE tag \in T : TRUE)

from_str(p) ==
    IF At(p, 1) = 34 THEN
        \* "Variant": a unit variant
        With(ParseString(p, 1), LAMBDA s :
          IF s.ok /\ s.next = Len(p) + 1 /\ TagNamed(s.val, UnitTags) # "none"
          THEN [ok |-> TRUE, val |-> Msg(TagNamed(s.val, UnitTags), <<>>, <<>>, 0, <<>>),
                next |-> s.next]
          ELSE Fail)
    ELSE IF At(p, 1) = 123 THEN
        \* {"Variant":content}
        With(ParseString(p, 2), LAMBDA k :
          IF ~k.ok THEN Fail
          ELSE IF TagNamed(k.val, AllTags) = "none" \/ At(p, k.next) # 58 THEN Fail
          ELSE With(ParseContent(p, k.next + 1, TagNamed(k.val, AllTags)), LAMBDA c :
                 IF c.ok /\ At(p, c.next) = 125 /\ c.next = Len(p) THEN c ELSE Fail))
    ELSE Fail

(***************************************************************************)
(* tcp_conn.rs: TcpConn.                                                   *)
(***************************************************************************)
POLL_SIZE == 4096

NoMsg == Msg("none", <<>>, <<>>, 0, <<>>)

\* TcpConn::send: the packet written to the stream
send(data) ==
    LET bytes  == to_string(data)
        packet == to_le_bytes(Len(bytes))
    IN packet \o bytes

\* The read loop of receive_partial on a non-blocking stream.  str is what the
\* socket holds, peer is "open", "closed" (end of file), "reset" or
\* "timedout" (the connection timed out).  A read of an empty open socket is
\* WouldBlock, and the ? returns it, as it returns any other error, at once.
RECURSIVE ReadLoop(_, _, _)
ReadLoop(str, buf, peer) ==
    IF str = <<>> THEN
        CASE peer = "open"   -> [err |-> "WouldBlock", buffer |-> buf, stream |-> str]
          [] peer = "reset"  -> [err |-> "ConnectionReset", buffer |-> buf, stream |-> str]
          [] peer = "closed" -> [err |-> "none", buffer |-> buf, stream |-> str]
          [] peer = "timedout" -> [err |-> "TimedOut", buffer |-> buf, stream |-> str]
    ELSE LET bytes_read == IF Len(str) < POLL_SIZE THEN Len(str) ELSE POLL_SIZE
             buf2       == buf \o SubSeq(str, 1, bytes_read)
             str2       == SubSeq(str, bytes_read + 1, Len(str))
         IN IF bytes_read < POLL_SIZE
            THEN [err |-> "none", buffer |-> buf2, stream |-> str2]
            ELSE ReadLoop(str2, buf2, peer)

\* stream.read on a blocking stream returns: the socket holds bytes, or the
\* connection is over.  No read timeout is set on the stream.
ReadReturns(str, peer) == str # <<>> \/ peer # "open"

\* the buffer cleared instead of drained
DrainAll(buf, end) == <<>>

\* self.buffer.drain(..end)
Drain(buf, end) == SubSeq(buf, end + 1, Len(buf))

\* receive_partial after the read loop: the length prefix, the payload, the
\* drain.  payload_size + 8 overflows a usize for prefixes of 2^64 - 8 and
\* more: a build with overflow checks panics there, one without wraps to a
\* value below 8 and panics on the slice 8..end.
ParseBuffer(buf) ==
    IF Len(buf) < 8 THEN [kind |-> "Other", msg |-> NoMsg, buffer |-> buf]
    ELSE With(UsizeAdd(from_le_bytes(SubSeq(buf, 1, 8)), 8), LAMBDA end :
           IF end.overflow THEN [kind |-> "Panic", msg |-> NoMsg, buffer |-> buf]
           ELSE IF NatLtUsize(Len(buf), end.limbs)
                THEN [kind |-> "Other", msg |-> NoMsg, buffer |-> buf]
           ELSE With(SubSeq(buf, 9, UsizeToNat(end.limbs)), LAMBDA payload_str :
                  IF ~from_utf8(payload_str)
                  THEN [kind |-> "InvalidData", msg |-> NoMsg, buffer |-> buf]
                  ELSE With(from_str(payload_str), LAMBDA data :
                         IF ~data.ok
                         THEN [kind |-> "InvalidData", msg |-> NoMsg, buffer |-> buf]
                         ELSE [kind |-> "Ok", msg |-> data.val,
                               buffer |-> Drain(buf, UsizeToNat(end.limbs))])))

\* TcpConn::receive_partial on a non-blocking stream; read is the buffer as
\* the read loop left it
receive_partial(str, buf, peer) ==
    With(ReadLoop(str, buf, peer), LAMBDA r :
      IF r.err # "none"
      THEN [kind |-> r.err, msg |-> NoMsg, buffer |-> r.buffer, stream |-> r.stream,
            read |-> r.buffer]
      ELSE With(ParseBuffer(r.buffer), LAMBDA p :
             [kind |-> p.kind, msg |-> p.msg, buffer |-> p.buffer, stream |-> r.stream,
              read |-> r.buffer]))

\* the buffer left as it is
keep_buffer(buf) == buf

\* TcpConn::empty_buffer
empty_buffer(buf) == <<>>

(***************************************************************************)
(* One framed channel and its peer.                                       *)
(*   wire    bytes the peer has written that have not reached the socket   *)
(*   stream  bytes the socket holds, not yet read                          *)
(*   buffer  TcpConn.buffer                                                *)
(*   peer    "open", "closed" (the peer shut the connection down: reads    *)
(*           return 0 once the socket is empty) or "reset"                 *)
(* History, for stating the properties:                                    *)
(*   sentFrames  the frames written so far: message, length, who wrote it  *)
(*   lastSent    the packet of the last TcpConn::send                      *)
(*   consumed    bytes removed from buffer so far (drain, empty_buffer)    *)
(*   lastRes     the last receive: its result, the buffer as its read loop *)
(*               left it, consumed and the bytes arrived when it was called*)
(*   fpc         where the reader is                                       *)
(***************************************************************************)
VARIABLES wire, stream, buffer, peer, sentFrames, lastSent, consumed, lastRes, fpc,
          deliveries

chanVars == <<wire, stream, buffer, peer, sentFrames, lastSent, consumed, lastRes, fpc,
              deliveries>>

(***************************************************************************)
(* A blocking receive with a timeout (receive_timeout, receive_full).      *)
(* Time is counted in units of WAIT_DELAY.                                 *)
(*   now          the clock                                                *)
(*   timeout_end  the deadline of the call                                 *)
(*   wake         when the sleeping caller may run again                   *)
(*   rpc          "start", "read" (in stream.read), "sleep", "done"        *)
(*   rres         what the call returned                                   *)
(*   firstFull    when the first frame had wholly arrived, -1 before       *)
(***************************************************************************)
VARIABLES now, timeout_end, wake, rpc, rres, firstFull

timeVars == <<now, timeout_end, wake, rpc, rres, firstFull>>

(***************************************************************************)
(* The room server (server.rs).  Connections are numbered 1, 2, ... in the *)
(* order they are made; a connection's number is not its client id.        *)
(*   clients       the Vec<Client>: records [id, conn]                     *)
(*   client_names  the HashMap id -> name, as a function                   *)
(*   clientsLock, namesLock  who holds each Mutex: "free", "disp" (the     *)
(*                 dispatcher, across steps) or "poisoned"; the acceptor   *)
(*                 takes and gives back a lock within one step             *)
(*   queue, qi     the dispatcher's queue and the index of its apply loop  *)
(*   dpc, dname    where the dispatcher is, and the name it took from the  *)
(*                 map for the notice it is about to send                  *)
(*   next_id, apc, aconn, aname  the acceptor: its counter, where it is,   *)
(*                 the connection in its hands and the name it was told    *)
(*   nconn, naccepted  connections made, connections taken by the acceptor *)
(*   cstream, cbuffer, cpeer  per connection: the server's socket, its     *)
(*                 TcpConn.buffer, and "open", "reset" or "timedout"       *)
(*   outbox        per connection: the messages conn.send has written      *)
(*   first, nevents  the connections whose first frame is out, and what    *)
(*                 the clients have done since                             *)
(***************************************************************************)
VARIABLES clients, client_names, clientsLock, namesLock, queue, qi, dpc, dname,
          next_id, apc, aconn, aname, nconn, naccepted,
          cstream, cbuffer, cpeer, outbox, first, nevents

srvVars == <<clients, client_names, clientsLock, namesLock, queue, qi, dpc, dname,
             next_id, apc, aconn, aname, nconn, naccepted,
             cstream, cbuffer, cpeer, outbox, first, nevents>>

vars == <<chanVars, timeVars, srvVars>>

\* a text whose frame is exactly POLL_SIZE bytes: 8 + 15 + 4071 + 2
BigText == [i \in 1..(POLL_SIZE - 25) |-> 97]

\* the messages the peer sends: every variant, a text that needs escaping,
\* and one that fills a whole read
FrameMsgs ==
    { ClientText(<<104, 105>>), ClientText(<<34, 92>>), ClientText(BigText),
      ClientHello(<<97>>), ClientGoodbye, ClientRename(<<98>>), ClientKick(1),
      ClientRequestIDs, ServerText(<<97>>, <<104, 105>>), ServerShutdown,
      ServerNotifyKick, ServerResponseIDs(<< <<<<97>>, 0>>, <<<<98>>, 1>> >>) }

\* frames a peer can write without TcpConn::send: a JSON string that names no
\* variant, a payload that is not UTF-8, a prefix of 2^64 - 1
RawFrames ==
    { to_le_bytes(3) \o <<34, 120, 34>>,
      to_le_bytes(1) \o <<255>>,
      <<255, 255, 255, 255, 255, 255, 255, 255, 0>> }

NoRes == [kind |-> "none", msg |-> NoMsg, read |-> <<>>, at |-> 0, arrived |-> 0]

RECURSIVE SumLen(_, _)
SumLen(fs, k) == IF k = 0 THEN 0 ELSE SumLen(fs, k - 1) + fs[k].len

FrameStart(k) == SumLen(sentFrames, k - 1)
FrameEnd(k)   == SumLen(sentFrames, k)
TotalSent     == SumLen(sentFrames, Len(sentFrames))
Arrived       == TotalSent - Len(wire)

InitChannel ==
    /\ wire = <<>>
    /\ stream = <<>>
    /\ buffer = <<>>
    /\ peer = "open"
    /\ sentFrames = <<>>
    /\ lastSent = <<>>
    /\ consumed = 0
    /\ lastRes = NoRes
    /\ fpc = "idle"
    /\ deliveries = 0

\* the packets of FrameMsgs, as TcpConn::send writes them
PacketOf == [m \in FrameMsgs |-> send(m)]

\* the peer calls TcpConn::send(m)
PeerSend(m) ==
    /\ peer = "open"
    /\ Len(sentFrames) < MaxFrames
    /\ wire' = wire \o PacketOf[m]
    /\ lastSent' = PacketOf[m]
    /\ sentFrames' = Append(sentFrames, [kind |-> "send", msg |-> m, len |-> Len(PacketOf[m])])
    /\ UNCHANGED <<stream, buffer, peer, consumed, lastRes, fpc, deliveries>>

\* the peer writes a frame of its own making
PeerWriteRaw(f) ==
    /\ peer = "open"
    /\ Len(sentFrames) < MaxFrames
    /\ wire' = wire \o f
    /\ sentFrames' = Append(sentFrames, [kind |-> "raw", msg |-> NoMsg, len |-> Len(f)])
    /\ UNCHANGED <<stream, buffer, peer, lastSent, consumed, lastRes, fpc, deliveries>>

\* the sizes of the next chunk: inside the length prefix, the prefix, a little
\* more, up to the end of the frame being delivered, all but one byte, all
ChunkSizes ==
    LET ends == {FrameEnd(k) - Arrived : k \in 1..Len(sentFrames)}
    IN {n \in {1, 8, 12, Len(wire) - 1, Len(wire)} \cup ends : n >= 1 /\ n <= Len(wire)}

\* the network delivers the next n bytes
Deliver(n) ==
    /\ peer # "reset"
    /\ deliveries < MaxDeliveries
    /\ n \in ChunkSizes
    /\ stream' = stream \o SubSeq(wire, 1, n)
    /\ wire' = SubSeq(wire, n + 1, Len(wire))
    /\ deliveries' = deliveries + 1
    /\ UNCHANGED <<buffer, peer, sentFrames, lastSent, consumed, lastRes, fpc>>

\* the peer closes the connection once all it wrote has been delivered
PeerClose ==
    /\ peer = "open"
    /\ wire = <<>>
    /\ peer' = "closed"
    /\ UNCHANGED <<wire, stream, buffer, sentFrames, lastSent, consumed, lastRes, fpc,
                   deliveries>>

\* the connection is reset: what the socket held is gone, reads fail
PeerReset ==
    /\ peer = "open"
    /\ peer' = "reset"
    /\ stream' = <<>>
    /\ UNCHANGED <<wire, buffer, sentFrames, lastSent, consumed, lastRes, fpc, deliveries>>

\* conn.receive() on a non-blocking connection, as the server's poll step
\* calls it (server.rs, line 60)
Receive ==
    /\ fpc = "idle"
    /\ \E r \in {receive_partial(stream, buffer, peer)} :
          /\ stream' = r.stream
          /\ buffer' = r.buffer
          /\ consumed' = consumed + (Len(r.read) - Len(r.buffer))
          /\ lastRes' = [kind |-> r.kind, msg |-> r.msg, read |-> r.read, at |-> consumed,
                         arrived |-> Arrived]
          /\ fpc' = CASE r.kind = "InvalidData" -> "invalid"
                      [] r.kind = "Panic" -> "panicked"
                      [] OTHER -> "idle"
    /\ UNCHANGED <<wire, peer, sentFrames, lastSent, deliveries>>

\* the caller's answer to InvalidData: conn.empty_buffer() (server.rs, line 75)
EmptyBuffer ==
    /\ fpc = "invalid"
    /\ buffer' = empty_buffer(buffer)
    /\ consumed' = consumed + Len(buffer)
    /\ fpc' = "idle"
    /\ UNCHANGED <<wire, stream, peer, sentFrames, lastSent, lastRes, deliveries>>

(***************************************************************************)
(* The server after server() has bound its listener and spawned the        *)
(* acceptor: nobody connected, both collections empty.                     *)
(***************************************************************************)
\* connections that may be made in one run
MaxConns == 3
\* what the clients may do after their first frames, in one run: frames sent
\* and connections reset, together
MaxEvents == 2

Conns == 1..MaxConns

InitServer ==
    /\ clients = <<>>
    /\ client_names = [id \in {} |-> <<>>]
    /\ clientsLock = "free"
    /\ namesLock = "free"
    /\ queue = <<>>
    /\ qi = 0
    /\ dpc = "poll"
    /\ dname = <<>>
    /\ next_id = 0
    /\ apc = "accept"
    /\ aconn = 0
    /\ aname = <<>>
    /\ nconn = 0
    /\ naccepted = 0
    /\ cstream = [c \in Conns |-> <<>>]
    /\ cbuffer = [c \in Conns |-> <<>>]
    /\ cpeer = [c \in Conns |-> "open"]
    /\ outbox = [c \in Conns |-> <<>>]
    /\ first = {}
    /\ nevents = 0

InitIdleTime ==
    /\ now = 0
    /\ timeout_end = 0
    /\ wake = 0
    /\ rpc = "start"
    /\ rres = [kind |-> "none", msg |-> NoMsg]
    /\ firstFull = -1

InitFrame == InitChannel /\ InitIdleTime /\ InitServer

NextFrame ==
    \/ \E m \in FrameMsgs : PeerSend(m) /\ UNCHANGED <<timeVars, srvVars>>
    \/ \E f \in RawFrames : PeerWriteRaw(f) /\ UNCHANGED <<timeVars, srvVars>>
    \/ \E n \in ChunkSizes : Deliver(n) /\ UNCHANGED <<timeVars, srvVars>>
    \/ PeerClose /\ UNCHANGED <<timeVars, srvVars>>
    \/ PeerReset /\ UNCHANGED <<timeVars, srvVars>>
    \/ Receive /\ UNCHANGED <<timeVars, srvVars>>
    \/ EmptyBuffer /\ UNCHANGED <<timeVars, srvVars>>

SpecFrame == InitFrame /\ [][NextFrame]_vars

(***************************************************************************)
(* receive_timeout(timeout) on a blocking stream.                          *)
(***************************************************************************)
\* WAIT_DELAY, the unit of the clock
WAIT_DELAY == 1
\* the longest timeout a caller passes, and the end of the clock
MaxTimeout == 2
MaxTime == 5

\* what the handshaking peer sends: its ClientHello, or a frame that fills a
\* whole read
HelloMsgs == {ClientHello(<<97>>), ClientText(BigText)}

\* receive_timeout: set_nonblocking(false), then receive_full takes the
\* deadline (tcp_conn.rs, lines 122-125 and 203)
CallReceiveTimeout(timeout) ==
    /\ rpc = "start"
    /\ timeout_end' = now + timeout
    /\ rpc' = "read"
    /\ UNCHANGED <<now, wake, rres, firstFull>>
    /\ UNCHANGED chanVars

\* One stream.read of receive_partial on the blocking stream, and what
\* follows it.  The read returns only when the socket holds bytes or the
\* connection is over.  A full read loops into the next read; a short one
\* goes on to the parse, and receive_full returns its result, or on
\* Incomplete checks the deadline and sleeps.
BlockingRead ==
    /\ rpc = "read"
    /\ ReadReturns(stream, peer)
    /\ \E bytes_read \in {IF Len(stream) < POLL_SIZE THEN Len(stream) ELSE POLL_SIZE} :
       \E buf2 \in {buffer \o SubSeq(stream, 1, bytes_read)} :
       \E p \in {IF bytes_read < POLL_SIZE THEN ParseBuffer(buf2)
                 ELSE [kind |-> "Other", msg |-> NoMsg, buffer |-> buf2]} :
          IF stream = <<>> /\ peer = "reset"
          THEN /\ rres' = [kind |-> "ConnectionReset", msg |-> NoMsg]
               /\ rpc' = "done"
               /\ UNCHANGED <<stream, buffer, consumed, wake>>
          ELSE /\ stream' = SubSeq(stream, bytes_read + 1, Len(stream))
               /\ IF bytes_read = POLL_SIZE
                  THEN /\ buffer' = buf2
                       /\ UNCHANGED <<rpc, rres, consumed, wake>>
                  ELSE /\ buffer' = p.buffer
                       /\ consumed' = consumed + (Len(buf2) - Len(p.buffer))
                       /\ IF p.kind = "Other"
                          THEN IF now >= timeout_end
                               THEN /\ rres' = [kind |-> "TimedOut", msg |-> NoMsg]
                                    /\ rpc' = "done"
                                    /\ UNCHANGED wake
                               ELSE /\ rpc' = "sleep"
                                    /\ wake' = now + WAIT_DELAY
                                    /\ UNCHANGED rres
                          ELSE /\ rres' = [kind |-> p.kind, msg |-> p.msg]
                               /\ rpc' = "done"
                               /\ UNCHANGED wake
    /\ UNCHANGED <<wire, peer, sentFrames, lastSent, lastRes, fpc, deliveries>>
    /\ UNCHANGED <<now, timeout_end, firstFull>>

\* thread::sleep(WAIT_DELAY) is over
Wake ==
    /\ rpc = "sleep"
    /\ now >= wake
    /\ rpc' = "read"
    /\ UNCHANGED <<now, timeout_end, wake, rres, firstFull>>
    /\ UNCHANGED chanVars

\* Time passes while the caller is blocked in read, asleep, or has returned:
\* what the caller computes takes no time on this clock.
Tick ==
    /\ now < MaxTime
    /\ \/ rpc = "read" /\ stream = <<>> /\ peer = "open"
       \/ rpc = "sleep" /\ now < wake
       \/ rpc = "done"
    /\ now' = now + 1
    /\ UNCHANGED <<timeout_end, wake, rpc, rres, firstFull>>
    /\ UNCHANGED chanVars

\* a delivery, with the time the first frame became whole
DeliverTimed(n) ==
    /\ Deliver(n)
    /\ firstFull' = IF firstFull = -1 /\ Len(sentFrames) >= 1 /\ Arrived + n >= FrameEnd(1)
                    THEN now ELSE firstFull
    /\ UNCHANGED <<now, timeout_end, wake, rpc, rres>>

NextTimeout ==
    \/ \E t \in 1..MaxTimeout : CallReceiveTimeout(t) /\ UNCHANGED srvVars
    \/ \E m \in HelloMsgs :
          sentFrames = <<>> /\ PeerSend(m) /\ UNCHANGED <<timeVars, srvVars>>
    \/ \E n \in ChunkSizes : DeliverTimed(n) /\ UNCHANGED srvVars
    \/ PeerClose /\ UNCHANGED <<timeVars, srvVars>>
    \/ PeerReset /\ UNCHANGED <<timeVars, srvVars>>
    \/ BlockingRead /\ UNCHANGED srvVars
    \/ Wake /\ UNCHANGED srvVars
    \/ Tick /\ UNCHANGED srvVars

SpecTimeout == InitFrame /\ [][NextTimeout]_vars

(***************************************************************************)
(* server.rs: the dispatcher (server, server_handle_message) and the       *)
(* acceptor (server_accept_connections).  A flow's step runs from one      *)
(* lock acquisition to the next.                                           *)
(***************************************************************************)
\* the texts of the server's notices (ASCII)
ServerName == <<91, 115, 101, 114, 118, 101, 114, 93>>
HasJoined  == <<32, 104, 97, 115, 32, 106, 111, 105, 110, 101, 100, 32, 116, 104, 101,
                32, 114, 111, 111, 109, 33>>
HasLeft    == <<32, 104, 97, 115, 32, 108, 101, 102, 116, 32, 116, 104, 101, 32, 114,
                111, 111, 109>>
LeftRoom   == <<32, 108, 101, 102, 116, 32, 116, 104, 101, 32, 114, 111, 111, 109>>

\* the name connection k gives itself: "a", "b", "c"
NameOf(k) == <<96 + k>>

\* what a client may send once its first frame is out
ClientMsgs ==
    { ClientText(<<104, 105>>), ClientGoodbye, ClientRename(<<122>>), ClientKick(0),
      ClientKick(1), ClientRequestIDs, ServerShutdown, ServerNotifyKick }

\* the first frame of connection k: its ClientHello, or a message that is not one
FirstMsgs(k) == {ClientHello(NameOf(k)), ClientRequestIDs}

\* a frame whose payload names no variant
BadFrame == to_le_bytes(3) \o <<34, 120, 34>>

\* a length prefix of 2^64 - 1
HugeFrame == <<255, 255, 255, 255, 255, 255, 255, 255>>

\* the frames a client can write without TcpConn::send
BadFrames == {BadFrame, HugeFrame}

AllClientMsgs == ClientMsgs \cup UNION {FirstMsgs(k) : k \in Conns}

\* the packets of the clients' messages, as TcpConn::send writes them
ClientPacket == [m \in AllClientMsgs |-> send(m)]

\* the process is alive: the main thread has neither exited nor panicked
Running == dpc \notin {"exited", "panicked"}

ClientIds   == {clients[i].id : i \in DOMAIN clients}
ClientConns == {clients[i].conn : i \in DOMAIN clients}
ConnOf(id)  == (CHOOSE i \in DOMAIN clients : clients[i].id = id)
IndexOfConn(c) == CHOOSE i \in DOMAIN clients : clients[i].conn = c

\* an insert that inserts nothing
MapKeep(map, k, v) == map

\* HashMap::insert and HashMap::remove
MapInsert(map, k, v) == [i \in DOMAIN map \cup {k} |-> IF i = k THEN v ELSE map[i]]
MapRemove(map, k)    == [i \in DOMAIN map \ {k} |-> map[i]]

\* the orders in which HashMap::iter may visit the keys
Orders(S) ==
    {o \in [1..Cardinality(S) -> S] : \A i, j \in DOMAIN o : i # j => o[i] # o[j]}

\* conn.send(msg) on connection c: written unless the connection is reset
ConnSend(ob, c, msg) ==
    IF cpeer[c] = "open" THEN [ob EXCEPT ![c] = Append(@, msg)] ELSE ob

\* msg to the first client of the list alone
distribute_to_first(list, ob, msg, exclude) ==
    [c \in Conns |->
        IF list # <<>> /\ list[1].conn = c /\ list[1].id \notin exclude /\ cpeer[c] = "open"
        THEN Append(ob[c], msg)
        ELSE ob[c]]

\* server_distribute_message: msg to every client of the list not in exclude
server_distribute_message(list, ob, msg, exclude) ==
    [c \in Conns |->
        IF /\ \E i \in DOMAIN list : list[i].conn = c /\ list[i].id \notin exclude
           /\ cpeer[c] = "open"
        THEN Append(ob[c], msg)
        ELSE ob[c]]

(***************************************************************************)
(* The clients.                                                            *)
(***************************************************************************)
\* a client connects: the listener queues connection nconn + 1
Connect ==
    /\ Running
    /\ nconn < MaxConns
    /\ nconn' = nconn + 1
    /\ UNCHANGED <<clients, client_names, clientsLock, namesLock, queue, qi, dpc, dname,
                   next_id, apc, aconn, aname, naccepted, cstream, cbuffer, cpeer,
                   outbox, first, nevents>>

\* the bytes reach the server's socket of connection k
Arrive(k, bytes) ==
    /\ Running
    /\ k \in 1..nconn
    /\ cpeer[k] = "open"
    /\ cstream' = [cstream EXCEPT ![k] = @ \o bytes]
    /\ UNCHANGED <<clients, client_names, clientsLock, namesLock, queue, qi, dpc, dname,
                   next_id, apc, aconn, aname, nconn, naccepted, cbuffer, cpeer, outbox>>

\* connection k sends its first frame
ClientFirst(k, m) ==
    /\ k \notin first
    /\ m \in FirstMsgs(k)
    /\ Arrive(k, ClientPacket[m])
    /\ first' = first \cup {k}
    /\ UNCHANGED nevents

\* connection k writes a frame of its own making
ClientBad(k, f) ==
    /\ nevents < MaxEvents
    /\ f \in BadFrames
    /\ Arrive(k, f)
    /\ first' = first \cup {k}
    /\ nevents' = nevents + 1

\* connection k sends a later frame
ClientSend(k, m) ==
    /\ k \in first
    /\ nevents < MaxEvents
    /\ Arrive(k, ClientPacket[m])
    /\ nevents' = nevents + 1
    /\ UNCHANGED first

\* connection k is reset: what the socket held is gone, reads and writes fail
ClientReset(k) ==
    /\ Running
    /\ k \in 1..nconn
    /\ cpeer[k] = "open"
    /\ nevents < MaxEvents
    /\ cpeer' = [cpeer EXCEPT ![k] = "reset"]
    /\ cstream' = [cstream EXCEPT ![k] = <<>>]
    /\ nevents' = nevents + 1
    /\ UNCHANGED <<clients, client_names, clientsLock, namesLock, queue, qi, dpc, dname,
                   next_id, apc, aconn, aname, nconn, naccepted, cbuffer, outbox, first>>

\* the connection to k times out: reads and writes fail from now on
ClientLost(k) ==
    /\ Running
    /\ k \in 1..nconn
    /\ cpeer[k] = "open"
    /\ nevents < MaxEvents
    /\ cpeer' = [cpeer EXCEPT ![k] = "timedout"]
    /\ nevents' = nevents + 1
    /\ UNCHANGED <<clients, client_names, clientsLock, namesLock, queue, qi, dpc, dname,
                   next_id, apc, aconn, aname, nconn, naccepted, cstream, cbuffer,
                   outbox, first>>

(***************************************************************************)
(* The dispatcher: the loop of server() and server_handle_message.         *)
(***************************************************************************)
accVars == <<next_id, apc, aconn, aname, naccepted>>
cliVars == <<nconn, first, nevents>>

\* only what was received goes in the queue
QueuedOk(id, r) ==
    IF r.kind = "Ok" THEN <<[id |-> id, msg |-> r.msg]>> ELSE <<>>

\* what a poll result puts in the queue (server.rs, lines 60-82)
Queued(id, r) ==
    CASE r.kind = "Ok"                -> <<[id |-> id, msg |-> r.msg]>>
      [] r.kind = "ConnectionReset"   -> <<[id |-> id, msg |-> ClientGoodbye]>>
      [] r.kind = "ConnectionAborted" -> <<[id |-> id, msg |-> ClientGoodbye]>>
      [] OTHER                        -> <<>>

RECURSIVE QueueOf(_, _, _)
QueueOf(list, res, n) ==
    IF n = 0 THEN <<>> ELSE QueueOf(list, res, n - 1) \o Queued(list[n].id, res[n])

\* the poll can start: clients.lock() of line 58 returns
CanPoll == dpc = "poll" /\ clientsLock = "free"

\* The poll step: with the clients lock held, one receive per client in list
\* order.  A receive that panics ends the main thread, and the process with
\* it, before the clients behind it are polled.  A poll that collects nothing
\* goes straight to the next one.
Collect ==
    /\ CanPoll
    /\ \E res \in {[i \in DOMAIN clients |->
                      receive_partial(cstream[clients[i].conn], cbuffer[clients[i].conn],
                                      cpeer[clients[i].conn])]} :
       \E p \in {Min({i \in DOMAIN clients : res[i].kind = "Panic"}
                     \cup {Len(clients) + 1})} :
       \E polled \in {{clients[i].conn : i \in {j \in DOMAIN clients : j <= p}}} :
       \E new \in {queue \o QueueOf(clients, res, p - 1)} :
          /\ cstream' = [c \in Conns |->
                           IF c \in polled THEN res[IndexOfConn(c)].stream ELSE cstream[c]]
          /\ cbuffer' = [c \in Conns |->
                           IF c \notin polled THEN cbuffer[c]
                           ELSE IF res[IndexOfConn(c)].kind = "InvalidData"
                                THEN empty_buffer(res[IndexOfConn(c)].buffer)
                                ELSE res[IndexOfConn(c)].buffer]
          /\ IF p <= Len(clients)
             THEN /\ dpc' = "panicked"
                  /\ clientsLock' = "poisoned"
                  /\ queue' = new
                  /\ qi' = qi
             ELSE /\ clientsLock' = clientsLock
                  /\ IF new = <<>>
                     THEN queue' = <<>> /\ qi' = 0 /\ dpc' = "poll"
                     ELSE queue' = new /\ qi' = 1 /\ dpc' = "apply"
    /\ UNCHANGED <<clients, client_names, namesLock, dname, cpeer, outbox>>
    /\ UNCHANGED <<accVars, cliVars>>

\* the apply loop moves to its next entry; after the last one queue.clear()
\* and the next poll
NextMessage ==
    IF qi = Len(queue)
    THEN queue' = <<>> /\ qi' = 0 /\ dpc' = "poll"
    ELSE queue' = queue /\ qi' = qi + 1 /\ dpc' = "apply"

Applying(tags) == dpc = "apply" /\ queue[qi].msg.tag \in tags

\* ServerShutdown: to every client, then exit(0)
HandleShutdown ==
    /\ Applying({"ServerShutdown"})
    /\ clientsLock = "free"
    /\ outbox' = server_distribute_message(clients, outbox, queue[qi].msg, {})
    /\ dpc' = "exited"
    /\ UNCHANGED <<clients, client_names, clientsLock, namesLock, queue, qi, dname,
                   cstream, cbuffer, cpeer>>
    /\ UNCHANGED <<accVars, cliVars>>

\* ClientText: client_names.lock() and the lookup of the sender; the guard
\* lives to the end of the if let
HandleText ==
    /\ Applying({"ClientText"})
    /\ namesLock = "free"
    /\ IF queue[qi].id \in DOMAIN client_names
       THEN /\ namesLock' = "disp"
            /\ dname' = client_names[queue[qi].id]
            /\ dpc' = "text"
            /\ UNCHANGED <<queue, qi>>
       ELSE /\ NextMessage
            /\ UNCHANGED <<namesLock, dname>>
    /\ UNCHANGED <<clients, client_names, clientsLock, cstream, cbuffer, cpeer, outbox>>
    /\ UNCHANGED <<accVars, cliVars>>

\* ClientText: the ServerText to everyone but the sender
DistributeText ==
    /\ dpc = "text"
    /\ clientsLock = "free"
    /\ outbox' = server_distribute_message(clients, outbox,
                     ServerText(dname, queue[qi].msg.s), {queue[qi].id})
    /\ namesLock' = "free"
    /\ NextMessage
    /\ UNCHANGED <<clients, client_names, clientsLock, dname, cstream, cbuffer, cpeer>>
    /\ UNCHANGED <<accVars, cliVars>>

\* ClientGoodbye: the sender leaves the list
HandleGoodbye ==
    /\ Applying({"ClientGoodbye"})
    /\ clientsLock = "free"
    /\ clients' = SelectSeq(clients, LAMBDA client : client.id # queue[qi].id)
    /\ dpc' = "goodbye"
    /\ UNCHANGED <<client_names, clientsLock, namesLock, queue, qi, dname, cstream,
                   cbuffer, cpeer, outbox>>
    /\ UNCHANGED <<accVars, cliVars>>

\* ClientGoodbye: the sender's name leaves the map; the guard lives to the end
\* of the if let
GoodbyeName ==
    /\ dpc = "goodbye"
    /\ namesLock = "free"
    /\ IF queue[qi].id \in DOMAIN client_names
       THEN /\ client_names' = MapRemove(client_names, queue[qi].id)
            /\ dname' = client_names[queue[qi].id]
            /\ namesLock' = "disp"
            /\ dpc' = "notice"
            /\ UNCHANGED <<queue, qi>>
       ELSE /\ NextMessage
            /\ UNCHANGED <<client_names, namesLock, dname>>
    /\ UNCHANGED <<clients, clientsLock, cstream, cbuffer, cpeer, outbox>>
    /\ UNCHANGED <<accVars, cliVars>>

\* ClientGoodbye: the notice to everyone in the list
GoodbyeNotice ==
    /\ dpc = "notice"
    /\ clientsLock = "free"
    /\ outbox' = server_distribute_message(clients, outbox,
                     ServerText(ServerName, dname \o HasLeft), {})
    /\ namesLock' = "free"
    /\ NextMessage
    /\ UNCHANGED <<clients, client_names, clientsLock, dname, cstream, cbuffer, cpeer>>
    /\ UNCHANGED <<accVars, cliVars>>

\* ClientRename: client_names.insert(sender, new_name)
HandleRename ==
    /\ Applying({"ClientRename"})
    /\ namesLock = "free"
    /\ client_names' = MapInsert(client_names, queue[qi].id, queue[qi].msg.s)
    /\ NextMessage
    /\ UNCHANGED <<clients, clientsLock, namesLock, dname, cstream, cbuffer, cpeer,
                   outbox>>
    /\ UNCHANGED <<accVars, cliVars>>

\* a kick with nobody to kick
KickRefusedNever(who) == who \notin ClientIds

\* ClientKick(who) is refused: who is 0, or no client of the list has that id
KickRefused(who) == who = 0 \/ who \notin ClientIds

\* ClientKick(who).  The guard of clients.lock() in the match scrutinee lives
\* to the end of the match, so the clients.lock() of line 159 is a second
\* lock of a Mutex by the thread that holds it: it does not return.  It
\* blocks forever or it panics, and a panic of the main thread ends the
\* process; lines 160 to 173 are never run.
HandleKick ==
    /\ Applying({"ClientKick"})
    /\ clientsLock = "free"
    /\ IF KickRefused(queue[qi].msg.n)
       THEN /\ NextMessage
            /\ UNCHANGED <<clientsLock, outbox>>
       ELSE /\ outbox' = ConnSend(outbox, clients[ConnOf(queue[qi].msg.n)].conn,
                                  ServerNotifyKick)
            /\ UNCHANGED <<queue, qi>>
            /\ \/ dpc' = "deadlocked" /\ clientsLock' = "disp"
               \/ dpc' = "panicked" /\ clientsLock' = "poisoned"
    /\ UNCHANGED <<clients, client_names, namesLock, dname, cstream, cbuffer, cpeer>>
    /\ UNCHANGED <<accVars, cliVars>>

\* ClientRequestIDs: with the clients lock held, the list of client_names in
\* the order the HashMap yields it, sent to the sender alone
HandleRequestIDs ==
    /\ Applying({"ClientRequestIDs"})
    /\ clientsLock = "free"
    /\ namesLock = "free"
    /\ IF queue[qi].id \in ClientIds
       THEN \E o \in Orders(DOMAIN client_names) :
               outbox' = ConnSend(outbox, clients[ConnOf(queue[qi].id)].conn,
                             ServerResponseIDs([i \in DOMAIN o |->
                                                  <<client_names[o[i]], o[i]>>]))
       ELSE outbox' = outbox
    /\ NextMessage
    /\ UNCHANGED <<clients, client_names, clientsLock, namesLock, dname, cstream,
                   cbuffer, cpeer>>
    /\ UNCHANGED <<accVars, cliVars>>

\* any other message is logged and dropped
HandleOther ==
    /\ Applying({"ClientHello", "ServerText", "ServerNotifyKick", "ServerResponseIDs"})
    /\ NextMessage
    /\ UNCHANGED <<clients, client_names, clientsLock, namesLock, dname, cstream,
                   cbuffer, cpeer, outbox>>
    /\ UNCHANGED <<accVars, cliVars>>

(***************************************************************************)
(* The acceptor: server_accept_connections.                                *)
(***************************************************************************)
dispVars == <<queue, qi, dpc, dname>>

\* the next connection taken with the clients lock kept for the handshake
AcceptHolding ==
    /\ Running
    /\ apc = "accept"
    /\ naccepted < nconn
    /\ clientsLock = "free"
    /\ clientsLock' = "acc"
    /\ aconn' = naccepted + 1
    /\ naccepted' = naccepted + 1
    /\ apc' = "handshake"
    /\ UNCHANGED <<clients, client_names, namesLock, next_id, aname,
                   cstream, cbuffer, cpeer, outbox>>
    /\ UNCHANGED <<dispVars, cliVars>>

\* listener.incoming() yields the next connection
Accept ==
    /\ Running
    /\ apc = "accept"
    /\ naccepted < nconn
    /\ aconn' = naccepted + 1
    /\ naccepted' = naccepted + 1
    /\ apc' = "handshake"
    /\ UNCHANGED <<clients, client_names, clientsLock, namesLock, next_id, aname,
                   cstream, cbuffer, cpeer, outbox>>
    /\ UNCHANGED <<dispVars, cliVars>>

\* any message taken for a hello
IsOk(r) == r.kind = "Ok"

\* the handshake result matches Ok(ClientHello(name))
IsHello(r) == r.kind = "Ok" /\ r.msg.tag = "ClientHello"

\* receive_timeout on the new connection: the blocking read returns once the
\* socket holds bytes or the connection is over.  ClientHello(name) goes on;
\* any other message and any error skip the client.
Handshake ==
    /\ Running
    /\ apc = "handshake"
    /\ ReadReturns(cstream[aconn], cpeer[aconn])
    /\ \E r \in {receive_partial(cstream[aconn], cbuffer[aconn], cpeer[aconn])} :
          /\ cstream' = [cstream EXCEPT ![aconn] = r.stream]
          /\ cbuffer' = [cbuffer EXCEPT ![aconn] = r.buffer]
          /\ IF IsHello(r)
             THEN aname' = r.msg.s /\ apc' = "announce"
             ELSE /\ aname' = aname
                  /\ apc' = IF r.kind = "Panic" THEN "panicked" ELSE "accept"
    /\ UNCHANGED <<clients, client_names, clientsLock, namesLock, next_id, aconn,
                   naccepted, cpeer, outbox>>
    /\ UNCHANGED <<dispVars, cliVars>>

\* the join notice to everyone in the list, then to the new client
Announce ==
    /\ Running
    /\ apc = "announce"
    /\ clientsLock = "free"
    /\ \E msg \in {ServerText(ServerName, aname \o HasJoined)} :
          outbox' = ConnSend(server_distribute_message(clients, outbox, msg, {}),
                             aconn, msg)
    /\ apc' = IF cpeer[aconn] = "open" THEN "push" ELSE "unjoin"
    /\ UNCHANGED <<clients, client_names, clientsLock, namesLock, next_id, aconn, aname,
                   naccepted, cstream, cbuffer, cpeer>>
    /\ UNCHANGED <<dispVars, cliVars>>

\* the echo could not be sent: "left the room" to everyone, the client skipped
Unjoin ==
    /\ Running
    /\ apc = "unjoin"
    /\ clientsLock = "free"
    /\ outbox' = server_distribute_message(clients, outbox,
                     ServerText(ServerName, aname \o LeftRoom), {})
    /\ apc' = "accept"
    /\ UNCHANGED <<clients, client_names, clientsLock, namesLock, next_id, aconn, aname,
                   naccepted, cstream, cbuffer, cpeer>>
    /\ UNCHANGED <<dispVars, cliVars>>

\* clients.lock().unwrap().push(new_client)
Push ==
    /\ Running
    /\ apc = "push"
    /\ clientsLock = "free"
    /\ clients' = Append(clients, [id |-> next_id, conn |-> aconn])
    /\ apc' = "name"
    /\ UNCHANGED <<client_names, clientsLock, namesLock, next_id, aconn, aname,
                   naccepted, cstream, cbuffer, cpeer, outbox>>
    /\ UNCHANGED <<dispVars, cliVars>>

\* the counter left as it is
SameId(n) == n

\* next_id += 1; the counter stays far below 2^64 here
NextId(n) == n + 1

\* client_names.lock().unwrap().insert(next_id, client_name); next_id += 1
InsertName ==
    /\ Running
    /\ apc = "name"
    /\ namesLock = "free"
    /\ client_names' = MapInsert(client_names, next_id, aname)
    /\ next_id' = NextId(next_id)
    /\ apc' = "accept"
    /\ UNCHANGED <<clients, clientsLock, namesLock, aconn, aname, naccepted, cstream,
                   cbuffer, cpeer, outbox>>
    /\ UNCHANGED <<dispVars, cliVars>>

Init == InitFrame

Next ==
    \/ Connect /\ UNCHANGED <<chanVars, timeVars>>
    \/ \E k \in Conns : \E m \in FirstMsgs(k) :
          ClientFirst(k, m) /\ UNCHANGED <<chanVars, timeVars>>
    \/ \E k \in Conns : \E f \in BadFrames :
          ClientBad(k, f) /\ UNCHANGED <<chanVars, timeVars>>
    \/ \E k \in Conns : \E m \in ClientMsgs :
          ClientSend(k, m) /\ UNCHANGED <<chanVars, timeVars>>
    \/ \E k \in Conns : ClientReset(k) /\ UNCHANGED <<chanVars, timeVars>>
    \/ \E k \in Conns : ClientLost(k) /\ UNCHANGED <<chanVars, timeVars>>
    \/ Collect /\ UNCHANGED <<chanVars, timeVars>>
    \/ HandleShutdown /\ UNCHANGED <<chanVars, timeVars>>
    \/ HandleText /\ UNCHANGED <<chanVars, timeVars>>
    \/ DistributeText /\ UNCHANGED <<chanVars, timeVars>>
    \/ HandleGoodbye /\ UNCHANGED <<chanVars, timeVars>>
    \/ GoodbyeName /\ UNCHANGED <<chanVars, timeVars>>
    \/ GoodbyeNotice /\ UNCHANGED <<chanVars, timeVars>>
    \/ HandleRename /\ UNCHANGED <<chanVars, timeVars>>
    \/ HandleKick /\ UNCHANGED <<chanVars, timeVars>>
    \/ HandleRequestIDs /\ UNCHANGED <<chanVars, timeVars>>
    \/ HandleOther /\ UNCHANGED <<chanVars, timeVars>>
    \/ Accept /\ UNCHANGED <<chanVars, timeVars>>
    \/ Handshake /\ UNCHANGED <<chanVars, timeVars>>
    \/ Announce /\ UNCHANGED <<chanVars, timeVars>>
    \/ Unjoin /\ UNCHANGED <<chanVars, timeVars>>
    \/ Push /\ UNCHANGED <<chanVars, timeVars>>
    \/ InsertName /\ UNCHANGED <<chanVars, timeVars>>

Spec == Init /\ [][Next]_vars

(***************************************************************************)
(* Properties of the framed channel (SpecFrame).                           *)
(***************************************************************************)
Frames == 1..Len(sentFrames)

\* the length a packet's prefix declares, read least significant byte first
DeclaredLen(b) == b[1] + 256 * b[2] + 65536 * b[3]

\* C2: partial-arrival tolerance.  A receive call that starts at the first
\* byte of a frame written by send(m) fails with Incomplete or would-block
\* while bytes of the frame are still to arrive, and returns m once all of
\* them have arrived.
C2_PartialArrival ==
    \A k \in Frames :
        (/\ sentFrames[k].kind = "send"
         /\ lastRes.kind \notin {"none", "ConnectionReset"}
         /\ lastRes.at = FrameStart(k))
        => IF FrameEnd(k) <= lastRes.arrived
           THEN lastRes.kind = "Ok" /\ lastRes.msg = sentFrames[k].msg
           ELSE lastRes.kind \in {"Other", "WouldBlock"}

C4_BufferEffect ==
    /\ lastRes.kind = "Ok" =>
          /\ buffer = SubSeq(lastRes.read, 8 + DeclaredLen(lastRes.read) + 1,
                             Len(lastRes.read))
          /\ consumed = lastRes.at + 8 + DeclaredLen(lastRes.read)
    /\ (lastRes.kind = "Other" \/ (lastRes.kind = "InvalidData" /\ fpc = "invalid")) =>
          /\ buffer = lastRes.read
          /\ consumed = lastRes.at

\* a receive succeeded and bytes of a later frame stayed in the buffer
C4_Witness ==
    /\ lastRes.kind = "Ok"
    /\ buffer # <<>>
    /\ Len(lastRes.read) > 8 + DeclaredLen(lastRes.read)

\* C5: buffer isolation on malformed data.  When a receive that started at
\* the first byte of a complete frame found its payload malformed and the
\* caller has reset the buffer, the bytes discarded are exactly that frame:
\* the next byte to be parsed is the first byte of the next frame.
C5_BufferIsolation ==
    \A k \in Frames :
        (/\ sentFrames[k].kind = "raw"
         /\ lastRes.kind = "InvalidData"
         /\ lastRes.at = FrameStart(k)
         /\ fpc = "idle")
        => consumed = FrameEnd(k)

(***************************************************************************)
(* Properties of the blocking receive (SpecTimeout).                       *)
(***************************************************************************)
\* C6: timeout.  While no complete frame has arrived the call is over once
\* the deadline and one WAIT_DELAY have passed, its result is then Timeout
\* (or the error of the stream), and it does not return Timeout when the
\* frame was whole before the deadline.
C6_Timeout ==
    /\ (rpc \in {"read", "sleep"} /\ firstFull = -1) => now <= timeout_end + WAIT_DELAY
    /\ (rpc = "done" /\ firstFull = -1) => rres.kind \in {"TimedOut", "ConnectionReset"}
    /\ rres.kind = "TimedOut" => ~(firstFull # -1 /\ firstFull < timeout_end)

(***************************************************************************)
(* Properties of the server (Spec).                                        *)
(***************************************************************************)
\* the text of the kick notice (ASCII)
WasKicked == <<32, 119, 97, 115, 32, 107, 105, 99, 107, 101, 100, 32, 98, 121, 32, 116,
               104, 101, 32, 104, 111, 115, 116>>

\* the dispatcher takes the step that applies, or goes on applying, queue[qi]
DispatcherStep == dpc' # dpc \/ qi' # qi

\* a state from which the next step of a flow is a broadcast, a name lookup
\* or a roster reply
Observing ==
    \/ Applying({"ClientText", "ClientRequestIDs", "ServerShutdown"})
    \/ dpc \in {"text", "notice"}
    \/ Running /\ clientsLock = "free" /\ apc \in {"announce", "unjoin"}

\* C1: registry consistency.  In every state that a broadcast, a name lookup
\* or a roster reply can observe, the ids of the connection list are the ids
\* of the name map.
C1_RegistryConsistent == Observing => ClientIds = DOMAIN client_names

\* C7: applying ClientKick(t), t not 0 and registered, sends ServerNotifyKick
\* to t, removes t from the connection list and the name map and nothing
\* else, and sends "<name of t> was kicked by the host" to the clients that
\* remain.
C7_Kick ==
    [][(/\ Applying({"ClientKick"})
        /\ queue[qi].msg.n # 0
        /\ queue[qi].msg.n \in ClientIds
        /\ queue[qi].msg.n \in DOMAIN client_names
        /\ DispatcherStep)
       => LET t == queue[qi].msg.n
              notice == ServerText(ServerName, client_names[t] \o WasKicked)
          IN /\ clients' = SelectSeq(clients, LAMBDA client : client.id # t)
             /\ client_names' = MapRemove(client_names, t)
             /\ \A i \in DOMAIN clients :
                   LET c == clients[i].conn
                   IN outbox'[c] = IF cpeer[c] # "open" THEN outbox[c]
                                   ELSE IF clients[i].id = t
                                        THEN Append(outbox[c], ServerNotifyKick)
                                        ELSE Append(outbox[c], notice)
             /\ dpc' \in {"apply", "poll"}]_vars

\* C8: host-only rights.  ClientKick and ServerShutdown from a registered
\* client (in the list and in the map) other than the host (id 0) change
\* neither the connection list nor the name map, send nothing to anyone and
\* do not end the server.
C8_HostOnly ==
    [][(/\ Applying({"ClientKick", "ServerShutdown"})
        /\ queue[qi].id # 0
        /\ queue[qi].id \in ClientIds
        /\ queue[qi].id \in DOMAIN client_names
        /\ DispatcherStep)
       => /\ UNCHANGED <<clients, client_names, outbox>>
          /\ dpc' \in {"apply", "poll"}]_vars

\* C9: a ClientText(text) applied for a registered sender s is not dropped,
\* and its ServerText(name of s, text) is sent to every other client of the
\* list and not to s.
C9_TextBroadcast ==
    [][/\ (/\ Applying({"ClientText"})
           /\ queue[qi].id \in ClientIds
           /\ DispatcherStep)
          => dpc' = "text"
       /\ (dpc = "text" /\ DispatcherStep)
          => \A i \in DOMAIN clients :
                LET c == clients[i].conn
                IN outbox'[c] =
                      IF clients[i].id # queue[qi].id /\ cpeer[c] = "open"
                      THEN Append(outbox[c],
                                  ServerText(client_names[queue[qi].id], queue[qi].msg.s))
                      ELSE outbox[c]]_vars

\* the ids of a roster, and the roster as a set of pairs
RosterIds(list) == {list[i][2] : i \in DOMAIN list}

\* C10: applying ClientRequestIDs from a registered client s sends one
\* ServerResponseIDs to s and nothing to anyone else, and the list holds one
\* (name, id) pair for each client of the connection list and no other pair.
C10_Roster ==
    [][(/\ Applying({"ClientRequestIDs"})
        /\ queue[qi].id \in ClientIds
        /\ DispatcherStep)
       => LET c == clients[ConnOf(queue[qi].id)].conn
          IN /\ \A d \in Conns \ {c} : outbox'[d] = outbox[d]
             /\ cpeer[c] = "open" =>
                   /\ Len(outbox'[c]) = Len(outbox[c]) + 1
                   /\ outbox'[c][Len(outbox'[c])].tag = "ServerResponseIDs"
                   /\ LET list == outbox'[c][Len(outbox'[c])].l
                      IN /\ Len(list) = Len(clients)
                         /\ RosterIds(list) = ClientIds
                         /\ \A i \in DOMAIN list :
                               list[i][2] \in DOMAIN client_names
                               => list[i][1] = client_names[list[i][2]]]_vars

\* C11: applying ClientGoodbye from a registered client s removes s from the
\* connection list and from the name map and touches no other entry, and
\* the notice "<name of s> has left the room" goes to the clients that are
\* in the list, never to s.
C11_Goodbye ==
    [][/\ (Applying({"ClientGoodbye"}) /\ DispatcherStep)
          => /\ clients' = SelectSeq(clients, LAMBDA client : client.id # queue[qi].id)
             /\ UNCHANGED <<client_names, outbox>>
       /\ (dpc = "goodbye" /\ DispatcherStep)
          => /\ queue[qi].id \in DOMAIN client_names
             /\ client_names' = MapRemove(client_names, queue[qi].id)
             /\ dname' = client_names[queue[qi].id]
             /\ dpc' = "notice"
             /\ UNCHANGED <<clients, outbox>>
       /\ (dpc = "notice" /\ DispatcherStep)
          => /\ queue[qi].id \notin ClientIds
             /\ \A c \in Conns :
                   outbox'[c] = IF c \in ClientConns /\ cpeer[c] = "open"
                                THEN Append(outbox[c],
                                            ServerText(ServerName, dname \o HasLeft))
                                ELSE outbox[c]
             /\ UNCHANGED <<clients, client_names>>]_vars

\* C12: the ids the acceptor hands out start at 0 and grow by one with each
\* admitted client: the client pushed gets the counter's value, the counter
\* moves only when an admission ends, and then by one; so the ids of the
\* list are distinct and below the counter, whoever has left and whichever
\* handshake has failed.
C12_Ids ==
    /\ [](/\ naccepted = 0 => next_id = 0
          /\ \A i, j \in DOMAIN clients : i < j => clients[i].id < clients[j].id
          /\ \A id \in ClientIds \cup DOMAIN client_names :
                id < next_id \/ (apc = "name" /\ id = next_id))
    /\ [][/\ next_id' = next_id + 1 <=> (apc = "name" /\ apc' = "accept")
          /\ next_id' # next_id + 1 => next_id' = next_id
          /\ (apc = "push" /\ apc' = "name")
             => clients' = Append(clients, [id |-> next_id, conn |-> aconn])
          /\ ~(apc = "push" /\ apc' = "name") => ClientIds' \subseteq ClientIds]_vars

\* three clients were admitted and the first has left
C12_Witness == next_id = 3 /\ ClientIds = {1, 2} /\ DOMAIN client_names = {1, 2}

\* the acceptor takes a step
AcceptorStep == apc' # apc

\* the first bytes on connection k are the packet of its ClientHello
HelloFirst(k) ==
    LET bytes == cbuffer[k] \o cstream[k]
        hello == ClientPacket[ClientHello(NameOf(k))]
    IN Len(bytes) >= Len(hello) /\ SubSeq(bytes, 1, Len(hello)) = hello

\* C13: admission.  When the first message of a new connection is
\* ClientHello(name), "<name> has joined the room!" is sent to every client of
\* the list and to the new client, the new client is appended to the list
\* and its name put in the map under the counter's value, and the counter
\* grows by one.
C13_Admission ==
    [][/\ (apc = "handshake" /\ AcceptorStep /\ HelloFirst(aconn))
          => apc' = "announce" /\ aname' = NameOf(aconn)
       /\ (apc = "announce" /\ AcceptorStep)
          => /\ \A c \in Conns :
                   outbox'[c] = IF (c \in ClientConns \/ c = aconn) /\ cpeer[c] = "open"
                                THEN Append(outbox[c],
                                            ServerText(ServerName, aname \o HasJoined))
                                ELSE outbox[c]
             /\ cpeer[aconn] = "open" => apc' = "push"
       /\ (apc = "push" /\ AcceptorStep)
          => /\ clients' = Append(clients, [id |-> next_id, conn |-> aconn])
             /\ apc' = "name"
             /\ UNCHANGED <<client_names, next_id>>
       /\ (apc = "name" /\ AcceptorStep)
          => /\ DOMAIN client_names' = DOMAIN client_names \cup {next_id}
             /\ client_names'[next_id] = aname
             /\ \A id \in DOMAIN client_names \ {next_id} :
                   client_names'[id] = client_names[id]
             /\ next_id' = next_id + 1
             /\ UNCHANGED clients]_vars

\* "b" was admitted after "a": both are in the list and in the map, "a" was
\* told that "b" joined and "b" got its echo
C13_Witness ==
    /\ next_id = 2
    /\ apc = "accept"
    /\ ClientConns = {1, 2}
    /\ DOMAIN client_names = {0, 1}
    /\ client_names[1] = NameOf(2)
    /\ Len(outbox[1]) = 2
    /\ outbox[1][2] = ServerText(ServerName, NameOf(2) \o HasJoined)
    /\ outbox[2] = <<ServerText(ServerName, NameOf(2) \o HasJoined)>>

\* C14: handshake rejection.  A connection whose first frame is not a
\* ClientHello (another message, a malformed frame, an error of the read) or
\* whose join echo cannot be sent is skipped: the list, the map and the
\* counter stay as they are.  A connection enters the list only from the
\* push that follows its echo, so every connection of the list has been
\* sent the join notice of its own hello.
C14_Rejection ==
    /\ [](\A c \in ClientConns \cup (IF apc \in {"push", "name"} THEN {aconn} ELSE {}) :
             /\ outbox[c] # <<>>
             /\ outbox[c][1] = ServerText(ServerName, NameOf(c) \o HasJoined))
    /\ [][/\ (apc = "handshake" /\ AcceptorStep /\ ~HelloFirst(aconn))
             => /\ apc' \in {"accept", "panicked"}
                /\ UNCHANGED <<clients, client_names, next_id, outbox>>
          /\ (apc = "announce" /\ AcceptorStep /\ cpeer[aconn] # "open")
             => /\ apc' = "unjoin"
                /\ outbox'[aconn] = outbox[aconn]
                /\ UNCHANGED <<clients, client_names, next_id>>
          /\ (apc = "unjoin" /\ AcceptorStep)
             => /\ apc' = "accept"
                /\ UNCHANGED <<clients, client_names, next_id>>
          /\ ClientConns' \subseteq ClientConns \cup (IF apc = "push" THEN {aconn} ELSE {})
          /\ (AcceptorStep /\ apc' = "push") => apc = "announce"
          /\ (AcceptorStep /\ apc' = "announce") => apc = "handshake"]_vars

\* the first connection was skipped and the second admitted with id 0
C14_Witness ==
    /\ naccepted = 2
    /\ apc = "accept"
    /\ next_id = 1
    /\ clients = <<[id |-> 0, conn |-> 2]>>
    /\ DOMAIN client_names = {0}


\* C15: error isolation.  Whatever the connections have sent, a poll of the
\* dispatcher ends in the apply loop or in the next poll: no receive of the
\* poll ends the loop.
C15_ErrorIsolation ==
    [][(dpc = "poll" /\ DispatcherStep) => dpc' = "apply"]_vars


\* C16: a failed stream is a departure.  After a poll that collected
\* something, every client whose connection has failed and whose socket
\* holds no more bytes has a ClientGoodbye with its id in the queue.
C16_ReadFailure ==
    [][(dpc = "poll" /\ dpc' = "apply")
       => \A i \in DOMAIN clients :
             (cpeer[clients[i].conn] # "open" /\ cstream[clients[i].conn] = <<>>)
             => \E j \in DOMAIN queue' :
                   queue'[j] = [id |-> clients[i].id, msg |-> ClientGoodbye]]_vars


\* C17: a refused kick.  Applying ClientKick(t) with t = 0 or with t the id
\* of no client of the list leaves the list, the map and every outbox as
\* they are, and the apply loop goes on.
C17_KickRefused ==
    [][(/\ Applying({"ClientKick"})
        /\ (queue[qi].msg.n = 0 \/ \A i \in DOMAIN clients : clients[i].id # queue[qi].msg.n)
        /\ DispatcherStep)
       => /\ UNCHANGED <<clients, client_names, outbox>>
          /\ dpc' \in {"apply", "poll"}]_vars

\* a ClientKick(0) sent by a registered client has been applied with the
\* target registered, and the loop is at the next entry
C17_Witness ==
    /\ dpc = "apply"
    /\ qi = 2
    /\ queue[1].msg = ClientKick(0)
    /\ 0 \in ClientIds


\* C18: shutdown.  Applying ServerShutdown sends ServerShutdown to every
\* client of the list, the sender included, and the server terminates: the
\* entries queued behind it are never applied.
C18_Shutdown ==
    [][/\ (Applying({"ServerShutdown"}) /\ DispatcherStep)
          => /\ \A c \in Conns :
                   outbox'[c] = IF c \in ClientConns /\ cpeer[c] = "open"
                                THEN Append(outbox[c], ServerShutdown)
                                ELSE outbox[c]
             /\ dpc' = "exited"
             /\ UNCHANGED <<clients, client_names, queue, qi>>
       /\ dpc = "exited"
          => UNCHANGED <<dpc, queue, qi>>]_vars

\* the server has exited on the first of two queued messages, and both
\* clients, the sender among them, were sent ServerShutdown last
C18_Witness ==
    /\ dpc = "exited"
    /\ Len(queue) = 2
    /\ qi = 1
    /\ Len(clients) = 2
    /\ queue[1].id \in ClientIds
    /\ \A c \in ClientConns : outbox[c][Len(outbox[c])] = ServerShutdown


\* C19: rename.  Applying ClientRename(n) from s sets the map's entry of s to
\* n and changes no other entry, nothing in the list and no outbox; the name
\* of an id in the map changes by no other step; and the ServerText of a
\* ClientText from s carries the name the map holds for s.
C19_Rename ==
    [][/\ (Applying({"ClientRename"}) /\ DispatcherStep)
          => /\ DOMAIN client_names' = DOMAIN client_names \cup {queue[qi].id}
             /\ client_names'[queue[qi].id] = queue[qi].msg.s
             /\ \A id \in DOMAIN client_names \ {queue[qi].id} :
                   client_names'[id] = client_names[id]
             /\ UNCHANGED <<clients, outbox>>
       /\ \A id \in DOMAIN client_names \cap DOMAIN client_names' :
             client_names'[id] # client_names[id]
             => Applying({"ClientRename"}) /\ queue[qi].id = id
       /\ (Applying({"ClientText"}) /\ DispatcherStep /\ dpc' = "text")
          => dname' = client_names[queue[qi].id]
       /\ (dpc = "text" /\ DispatcherStep)
          => \A c \in Conns :
                outbox'[c] = outbox[c]
                \/ outbox'[c] = Append(outbox[c], ServerText(dname, queue[qi].msg.s))]_vars


\* C20: a tick drains every channel.  After a poll that collected something
\* no registered connection is left with a complete frame: every frame that
\* had arrived is in the queue, under its sender's id.
C20_DrainAll ==
    [][(dpc = "poll" /\ dpc' = "apply")
       => \A c \in ClientConns :
             /\ cstream'[c] = <<>>
             /\ ParseBuffer(cbuffer'[c]).kind # "Ok"]_vars

\* C21: a buffered frame needs no further bytes.  A receive called while the
\* buffer already holds a complete frame returns that frame's message,
\* whatever the socket holds.
C21_BufferedFrame ==
    [][(/\ fpc = "idle"
        /\ ParseBuffer(buffer).kind = "Ok"
        /\ lastRes' # lastRes)
       => /\ lastRes'.kind = "Ok"
          /\ lastRes'.msg = ParseBuffer(buffer).msg]_vars

\* C22: deadlock freedom.  Applying a message never leaves the dispatcher
\* waiting for a lock: each step of the apply loop ends in a later step of
\* the same message, in the next message, in the next poll or in the exit
\* of ServerShutdown.
C22_DeadlockFree ==
    [][(dpc \in {"apply", "text", "goodbye", "notice"} /\ DispatcherStep)
       => dpc' \in {"apply", "text", "goodbye", "notice", "poll", "exited"}]_vars

\* where the dispatcher is while it applies the queue
ApplyPhase == {"apply", "text", "goodbye", "notice"}

\* C23: exactly once, in order.  The queue is empty when a poll starts and
\* holds at most one message of each sender; while it is applied it does not
\* change, the apply loop goes through it entry by entry, neither skipping
\* nor repeating one, and it is cleared after the last entry only; and the
\* dispatcher does not stop, other than by the exit of ServerShutdown, with
\* entries of the queue still to apply.
C23_ExactlyOnce ==
    /\ [](/\ dpc = "poll" => (queue = <<>> /\ qi = 0)
          /\ dpc \in ApplyPhase => qi \in DOMAIN queue
          /\ \A i, j \in DOMAIN queue : i # j => queue[i].id # queue[j].id
          /\ dpc \in {"deadlocked", "panicked"} => qi = Len(queue))
    /\ [][(dpc \in ApplyPhase)
          => \/ queue' = queue /\ qi' = qi
             \/ queue' = queue /\ qi' = qi + 1 /\ dpc' = "apply"
             \/ queue' = <<>> /\ qi' = 0 /\ qi = Len(queue) /\ dpc' = "poll"]_vars

\* one step of the apply loop
ApplyNext ==
    \/ HandleShutdown
    \/ HandleText
    \/ DistributeText
    \/ HandleGoodbye
    \/ GoodbyeName
    \/ GoodbyeNotice
    \/ HandleRename
    \/ HandleKick
    \/ HandleRequestIDs
    \/ HandleOther

\* C24: the handshake blocks nobody.  While the acceptor waits for the hello
\* of a new connection neither lock is held on its behalf, so a dispatcher
\* that is polling can poll and one that is applying can take its next
\* step; and the handshake itself changes neither the locks, the list, the
\* map, nor what the dispatcher is doing.
C24_HandshakeHoldsNoLock ==
    /\ [](apc = "handshake"
          => /\ clientsLock \in {"free", "disp", "poisoned"}
             /\ namesLock \in {"free", "disp", "poisoned"}
             /\ dpc = "poll" => CanPoll
             /\ dpc \in ApplyPhase => ENABLED ApplyNext)
    /\ [][(apc = "handshake" /\ AcceptorStep)
          => UNCHANGED <<clients, client_names, clientsLock, namesLock, dispVars>>]_vars

\* connection 2 has sent nothing and the acceptor waits for its hello,
\* while the dispatcher is in the middle of a ClientText of the first client
C24_Witness ==
    /\ apc = "handshake"
    /\ aconn = 2
    /\ 2 \notin first
    /\ cstream[2] = <<>>
    /\ cpeer[2] = "open"
    /\ dpc = "text"
    /\ namesLock = "disp"

\* C25: acceptor liveness.  While the server runs, the acceptor is never
\* left in a handshake it cannot end: the read of the handshake returns,
\* with a frame, an error or the timeout, whatever the connection does.
C25_AcceptorLive ==
    (apc = "handshake" /\ Running) => ReadReturns(cstream[aconn], cpeer[aconn])

\* a step taken with the dispatcher at its poll by neither a client nor the
\* acceptor: the poll itself
PollStep == dpc = "poll" /\ UNCHANGED <<apc, nconn, first, nevents, cpeer>>

\* what client.conn.receive() returns for the client on connection c
PollResult(c) == receive_partial(cstream[c], cbuffer[c], cpeer[c])

\* the place in the list of the first client whose receive panics
FirstPanic ==
    Min({i \in DOMAIN clients : PollResult(clients[i].conn).kind = "Panic"}
        \cup {Len(clients) + 1})

\* C26: a malformed frame.  When the poll of a registered client ends in a
\* decode failure, the client's buffer is emptied, the client stays in the
\* list and in the map, the queue holds no entry under its id, and every
\* other connection's buffer is what that connection's own receive leaves.
C26_Malformed ==
    [][PollStep
       => \A i \in DOMAIN clients :
             (i < FirstPanic /\ PollResult(clients[i].conn).kind = "InvalidData")
             => /\ cbuffer'[clients[i].conn] = <<>>
                /\ cstream'[clients[i].conn] = PollResult(clients[i].conn).stream
                /\ \A j \in DOMAIN queue' : queue'[j].id # clients[i].id
                /\ UNCHANGED <<clients, client_names, outbox>>
                /\ dpc' # "panicked" => dpc' \in {"poll", "apply"}
                /\ \A d \in Conns \ {clients[i].conn} :
                      cbuffer'[d] =
                         IF \E k \in DOMAIN clients : k <= FirstPanic /\ clients[k].conn = d
                         THEN IF PollResult(d).kind = "InvalidData"
                              THEN <<>> ELSE PollResult(d).buffer
                         ELSE cbuffer[d]]_vars

\* the dispatcher is about to poll two registered clients: the frame of the
\* first is malformed, the socket of the second holds a frame
C26_Witness ==
    /\ CanPoll
    /\ Len(clients) = 2
    /\ ClientIds \subseteq DOMAIN client_names
    /\ PollResult(clients[1].conn).kind = "InvalidData"
    /\ PollResult(clients[2].conn).kind = "Ok"

\* C27: a reset is a goodbye.  When the poll of a registered client ends in
\* ConnectionReset, the queue gets, under the client's id, the very entry it
\* would get for a ClientGoodbye received from that client, and no other
\* entry under that id; the poll goes on to the apply loop.  Applying the
\* entry then takes the client out of the list, as it does for any
\* ClientGoodbye.
C27_ResetIsGoodbye ==
    [][/\ PollStep
          => \A i \in DOMAIN clients :
                (i < FirstPanic /\ PollResult(clients[i].conn).kind = "ConnectionReset")
                => /\ \E j \in DOMAIN queue' :
                         /\ <<queue'[j]>> = Queued(clients[i].id,
                                                   [kind |-> "Ok", msg |-> ClientGoodbye])
                         /\ \A k \in DOMAIN queue' \ {j} : queue'[k].id # clients[i].id
                   /\ UNCHANGED <<clients, client_names, outbox>>
                   /\ dpc' # "panicked" => dpc' = "apply"
       /\ (Applying({"ClientGoodbye"}) /\ DispatcherStep)
          => /\ clients' = SelectSeq(clients, LAMBDA client : client.id # queue[qi].id)
             /\ dpc' = "goodbye"]_vars

\* the one thing a client has done since its hello is to reset its
\* connection, and the dispatcher is applying a ClientGoodbye under its id
C27_Witness ==
    /\ nevents = 1
    /\ dpc = "apply"
    /\ \E i \in DOMAIN clients :
          /\ cpeer[clients[i].conn] = "reset"
          /\ queue[qi] = [id |-> clients[i].id, msg |-> ClientGoodbye]
          /\ clients[i].id \in DOMAIN client_names

(***************************************************************************)
(* Properties of the length prefix (SpecFrame).                            *)
(***************************************************************************)
\* C28: length-prefix arithmetic.  A receive whose read loop left eight
\* bytes or more in the buffer never aborts, whatever the prefix; and when
\* the prefix L, taken as the number it is, has L + 8 above the length of
\* the buffer, the receive returns Incomplete.
C28_PrefixArithmetic ==
    /\ lastRes.kind # "Panic"
    /\ (/\ lastRes.kind \notin {"none", "WouldBlock", "ConnectionReset", "TimedOut"}
        /\ Len(lastRes.read) >= 8
        /\ \/ ~UsizeSmall(from_le_bytes(SubSeq(lastRes.read, 1, 8)))
           \/ UsizeToNat(from_le_bytes(SubSeq(lastRes.read, 1, 8))) + 8 > Len(lastRes.read))
       => lastRes.kind = "Other"
====
